---------------------------- MODULE Spec2Model ----------------------------
(***************************************************************************)
(* Message routing of quicklang-bot: the TelegramBotService registry       *)
(* (src/src/lib/TelegramBotService.ts) and the way inbound updates reach    *)
(* the registered command and free-text handlers.                          *)
(*                                                                         *)
(* Texts are sequences of one-character strings.  Indices of the source    *)
(* (lastIndex, match positions) are 0-based; sequence positions here are   *)
(* 1-based, so position p of the model is index p - 1 of the source.       *)
(***************************************************************************)
EXTENDS Naturals, Sequences, FiniteSets

VARIABLES
    commands,            \* TelegramBotService.commands
    textRegexpCallbacks, \* the matchers registered on the transport by bot.onText
    messageHandlers,     \* TelegramBotService.messageHandlers
    lastIndex,           \* lastIndex of the RegExp object of each pattern trigger
    regLog,              \* history: the descriptors passed to registerCommand, in call order
    event,               \* the operation performed by the last step, with its input
    invoked,             \* the handlers invoked by the last step, in invocation order
    calls,               \* the transport calls issued by the last step, in order
    polling,             \* whether the transport is polling for updates
    auth,                \* Main: the state of the googleApi.initialize() handshake
    pending              \* Main: the getSheetMetadata calls in flight, with the handler awaiting each

vars == <<commands, textRegexpCallbacks, messageHandlers, lastIndex, regLog,
          event, invoked, calls, polling, auth, pending>>

\* The state of Main, which the operations of TelegramBotService leave alone.
mainVars == <<auth, pending>>

(***************************************************************************)
(* Bounds and input sets                                                   *)
(***************************************************************************)
MaxRegistrations == 3

MaxTriggerLen == 2

MaxTextLen == 3

Chats == {1, 2}

QueryIds == {7, 8}

\* Command names: the first is a textual prefix of the second.
CommandNames == { <<"a">>, <<"a", "b">> }

Descriptions == {"d1", "d2"}

CommandInputs == [command : CommandNames, description : Descriptions]

StringTrigger(p) == [kind |-> "string", pat |-> p, flags |-> ""]

RegExpTrigger(p, f) == [kind |-> "regexp", pat |-> p, flags |-> f]

TriggerInputs ==
    { StringTrigger(<<>>), StringTrigger(<<"A">>),
      RegExpTrigger(<<"a">>, ""), RegExpTrigger(<<"a">>, "g"),
      RegExpTrigger(<<"a">>, "y") }

Texts ==
    { <<>>,
      <<"/", "a">>,
      <<"/", "a", "b">>,
      <<"/", "a", "b", " ", "x">>,
      <<"x", " ", "/", "a">>,
      <<"a", " ", "a">>,
      <<"x">> }

TextMessage(c, t) == [chat |-> c, hasText |-> TRUE, text |-> t]

\* A message without a text body (a photo, a sticker, ...): msg.text is undefined.
NoTextMessage(c) == [chat |-> c, hasText |-> FALSE, text |-> <<>>]

Messages == { TextMessage(c, t) : c \in Chats, t \in Texts }
            \cup { NoTextMessage(c) : c \in Chats }

Queries ==
    { [id |-> q, hasData |-> FALSE, data |-> <<>>] : q \in QueryIds }
    \cup { [id |-> q, hasData |-> TRUE, data |-> d] : q \in QueryIds, d \in { <<>>, <<"x">> } }

Alphabet == {"a", "A", "b", "B"}

\* All sequences over S of length at most n.
RECURSIVE SeqsUpTo(_, _)
SeqsUpTo(S, n) ==
    IF n = 0 THEN { <<>> }
    ELSE LET shorter == SeqsUpTo(S, n - 1)
         IN  shorter \cup { Append(s, c) : s \in { x \in shorter : Len(x) = n - 1 }, c \in S }

(***************************************************************************)
(* String and RegExp primitives used by the router                          *)
(***************************************************************************)
LowerChar(c) == IF c = "A" THEN "a" ELSE IF c = "B" THEN "b" ELSE c

\* String.prototype.toLowerCase
ToLowerCase(s) == [i \in 1..Len(s) |-> LowerChar(s[i])]

\* p occurs in t at position i
MatchAt(t, p, i) ==
    /\ i >= 1
    /\ i + Len(p) - 1 <= Len(t)
    /\ \A k \in 1..Len(p) : t[i + k - 1] = p[k]

\* The first position >= from at which p occurs in t, 0 when there is none.
RECURSIVE IndexOf(_, _, _)
IndexOf(t, p, from) ==
    IF from + Len(p) - 1 > Len(t) THEN 0
    ELSE IF MatchAt(t, p, from) THEN from
    ELSE IndexOf(t, p, from + 1)

\* String.prototype.includes
Includes(t, p) == IndexOf(t, p, 1) # 0

StringTriggerMatchesRaw(trigger, text) == Includes(ToLowerCase(text), trigger.pat)

\* The test with an empty trigger treated as matching nothing
StringTriggerMatchesNonEmpty(trigger, text) ==
    trigger.pat # <<>> /\ Includes(ToLowerCase(text), ToLowerCase(trigger.pat))

\* msg.text.toLowerCase().includes(handler.trigger.toLowerCase())
StringTriggerMatches(trigger, text) ==
    Includes(ToLowerCase(text), ToLowerCase(trigger.pat))

\* RegExp.prototype.test of a literal pattern; li is the object's lastIndex before
\* the call.  Without flags the search starts at 0 and lastIndex is not touched; with
\* g it starts at lastIndex; with y the match must start exactly at lastIndex; with g
\* or y lastIndex becomes the end of the match, or 0 when the test fails.
RegExpTest(trigger, li, text) ==
    LET p == IF trigger.flags = "" THEN IndexOf(text, trigger.pat, 1)
             ELSE IF li > Len(text) THEN 0
             ELSE IF trigger.flags = "g" THEN IndexOf(text, trigger.pat, li + 1)
             ELSE IF MatchAt(text, trigger.pat, li + 1) THEN li + 1 ELSE 0
    IN  [ok |-> p # 0,
         lastIndex |-> IF trigger.flags = "" THEN li
                       ELSE IF p # 0 THEN p - 1 + Len(trigger.pat) ELSE 0]


(***************************************************************************)
(* Handlers.  A handler is identified by the registration that supplied    *)
(* it.  The handlers of this repository reply to the chat of the message   *)
(* that invoked them (envConfig.ts, the handlers of start, help, about).   *)
(***************************************************************************)
CommandHandlerId(i) == [kind |-> "command", n |-> i]

TriggerHandlerId(i) == [kind |-> "trigger", n |-> i]

\* bot.sendMessage(msg.chat.id, text) issued by handler h
Reply(h, msg) == [op |-> "sendMessage", chatId |-> msg.chat, by |-> h]

\* The transport calls of the handlers hs, invoked in this order for msg.
Replies(hs, msg) == [k \in 1..Len(hs) |-> Reply(hs[k], msg)]

(***************************************************************************)
(* handleMessage: the listener of the transport's 'message' event          *)
(***************************************************************************)
\* The loop without its return statements: every matching trigger is invoked.
RECURSIVE TriggerLoopNoReturn(_, _, _, _)
TriggerLoopNoReturn(hs, li, text, i) ==
    IF i > Len(hs) THEN [invoked |-> <<>>, lastIndex |-> li]
    ELSE IF hs[i].trigger.kind = "string"
    THEN LET rest == TriggerLoopNoReturn(hs, li, text, i + 1)
         IN  IF StringTriggerMatches(hs[i].trigger, text)
             THEN [rest EXCEPT !.invoked = <<hs[i].handler>> \o @]
             ELSE rest
    ELSE LET r    == RegExpTest(hs[i].trigger, li[i], text)
             rest == TriggerLoopNoReturn(hs, [li EXCEPT ![i] = r.lastIndex], text, i + 1)
         IN  IF r.ok THEN [rest EXCEPT !.invoked = <<hs[i].handler>> \o @]
             ELSE rest

\* The for loop over messageHandlers from its i-th entry on: the handlers it
\* invokes and the lastIndex of every pattern trigger when it ends.
RECURSIVE TriggerLoop(_, _, _, _)
TriggerLoop(hs, li, text, i) ==
    IF i > Len(hs) THEN [invoked |-> <<>>, lastIndex |-> li]
    ELSE IF hs[i].trigger.kind = "string"
    THEN IF StringTriggerMatches(hs[i].trigger, text)
         THEN [invoked |-> <<hs[i].handler>>, lastIndex |-> li]
         ELSE TriggerLoop(hs, li, text, i + 1)
    ELSE LET r   == RegExpTest(hs[i].trigger, li[i], text)
             li2 == [li EXCEPT ![i] = r.lastIndex]
         IN  IF r.ok
             THEN [invoked |-> <<hs[i].handler>>, lastIndex |-> li2]
             ELSE TriggerLoop(hs, li2, text, i + 1)

\* handleMessage without the guard on msg.text
HandleMessageNoGuard(hs, li, msg) == TriggerLoop(hs, li, msg.text, 1)

HandleMessage(hs, li, msg) ==
    IF ~msg.hasText \/ msg.text = <<>>
    THEN [invoked |-> <<>>, lastIndex |-> li]
    ELSE TriggerLoop(hs, li, msg.text, 1)

(***************************************************************************)
(* Commands: registerCommand hands new RegExp(`^/${command}`) and a        *)
(* callback to bot.onText.  For every text message the transport           *)
(* (node-telegram-bot-api, processUpdate) first emits 'message' and then   *)
(* runs regexp.exec(text) for each registered matcher in registration       *)
(* order, calling the callback of each one that matches; it stops after    *)
(* the first match only when options.onlyFirstMatch is set.                *)
(***************************************************************************)
\* The constructor's default options are { polling: true }: onlyFirstMatch is unset.
onlyFirstMatch == FALSE

\* The pattern built without its ^ anchor
CommandRegExpUnanchored(name) == [source |-> <<"/">> \o name, anchored |-> FALSE]

\* new RegExp(`^/${command.command}`)
CommandRegExp(name) == [source |-> <<"/">> \o name, anchored |-> TRUE]

\* The same pattern without the ^ anchor
RegExpExecUnanchored(re, text) == Includes(text, re.source)

\* regexp.exec(text) # null, for the pattern ^/<name>
RegExpExec(re, text) ==
    IF re.anchored THEN MatchAt(text, re.source, 1) ELSE Includes(text, re.source)

\* The callbacks called for text by the matchers cbs from the i-th on.
RECURSIVE OnTextDispatch(_, _, _)
OnTextDispatch(cbs, text, i) ==
    IF i > Len(cbs) THEN <<>>
    ELSE IF ~RegExpExec(cbs[i].regexp, text) THEN OnTextDispatch(cbs, text, i + 1)
    ELSE IF onlyFirstMatch THEN <<cbs[i].callback>>
    ELSE <<cbs[i].callback>> \o OnTextDispatch(cbs, text, i + 1)

\* The command callbacks the transport calls for an inbound message.
TextCallbacks(cbs, msg) ==
    IF ~msg.hasText \/ msg.text = <<>> THEN <<>> ELSE OnTextDispatch(cbs, msg.text, 1)

(***************************************************************************)
(* State machine                                                           *)
(***************************************************************************)
Init ==
    /\ commands = <<>>
    /\ textRegexpCallbacks = <<>>
    /\ messageHandlers = <<>>
    /\ lastIndex = <<>>
    /\ regLog = <<>>
    /\ event = [type |-> "init"]
    /\ invoked = <<>>
    /\ calls = <<>>
    /\ polling = TRUE
    /\ auth = "none"
    /\ pending = <<>>

Registrations == Len(commands) + Len(messageHandlers)

\* registerCommand that records the descriptor but registers no matcher
RegisterCommandNoOnText(d) ==
    /\ Registrations < MaxRegistrations
    /\ commands' = Append(commands,
           [command |-> d.command, description |-> d.description,
            handler |-> CommandHandlerId(Len(commands) + 1)])
    /\ regLog' = Append(regLog, d)
    /\ event' = [type |-> "registerCommand", input |-> d]
    /\ invoked' = <<>>
    /\ calls' = <<>>
    /\ UNCHANGED <<textRegexpCallbacks, messageHandlers, lastIndex, polling, mainVars>>

\* registerCommand that overwrites the entry of a name already registered
RegisterCommandOverwriting(d) ==
    LET same == { i \in 1..Len(commands) : commands[i].command = d.command }
    IN  /\ Registrations < MaxRegistrations
        /\ IF same = {}
           THEN /\ commands' = Append(commands,
                       [command |-> d.command, description |-> d.description,
                        handler |-> CommandHandlerId(Len(commands) + 1)])
                /\ textRegexpCallbacks' = Append(textRegexpCallbacks,
                       [regexp |-> CommandRegExp(d.command),
                        callback |-> CommandHandlerId(Len(commands) + 1)])
           ELSE /\ commands' = [i \in 1..Len(commands) |->
                       IF i \in same
                       THEN [commands[i] EXCEPT !.description = d.description]
                       ELSE commands[i]]
                /\ UNCHANGED textRegexpCallbacks
        /\ regLog' = Append(regLog, d)
        /\ event' = [type |-> "registerCommand", input |-> d]
        /\ invoked' = <<>>
        /\ calls' = <<>>
        /\ UNCHANGED <<messageHandlers, lastIndex, polling, mainVars>>

RegisterCommand(d) ==
    /\ Registrations < MaxRegistrations
    /\ commands' = Append(commands,
           [command |-> d.command, description |-> d.description,
            handler |-> CommandHandlerId(Len(commands) + 1)])
    /\ textRegexpCallbacks' = Append(textRegexpCallbacks,
           [regexp |-> CommandRegExp(d.command),
            callback |-> CommandHandlerId(Len(commands) + 1)])
    /\ regLog' = Append(regLog, d)
    /\ event' = [type |-> "registerCommand", input |-> d]
    /\ invoked' = <<>>
    /\ calls' = <<>>
    /\ UNCHANGED <<messageHandlers, lastIndex, polling, mainVars>>

\* A RegExp object is created with lastIndex 0.
RegisterMessageHandler(t) ==
    /\ Registrations < MaxRegistrations
    /\ messageHandlers' = Append(messageHandlers,
           [trigger |-> t, handler |-> TriggerHandlerId(Len(messageHandlers) + 1)])
    /\ lastIndex' = Append(lastIndex, 0)
    /\ event' = [type |-> "registerMessageHandler", input |-> t]
    /\ invoked' = <<>>
    /\ calls' = <<>>
    /\ UNCHANGED <<commands, textRegexpCallbacks, regLog, polling, mainVars>>

\* The menu entries in reverse order
BotCommandsReversed(cmds) ==
    [i \in 1..Len(cmds) |->
        [command |-> cmds[Len(cmds) + 1 - i].command,
         description |-> cmds[Len(cmds) + 1 - i].description]]

\* this.commands.map((cmd) => ({ command, description }))
BotCommands(cmds) ==
    [i \in 1..Len(cmds) |->
        [command |-> cmds[i].command, description |-> cmds[i].description]]

\* setCommands that hands over the list and empties it
SetCommandsConsuming ==
    /\ event' = [type |-> "setCommands"]
    /\ invoked' = <<>>
    /\ calls' = << [op |-> "setMyCommands", commands |-> BotCommands(commands)] >>
    /\ commands' = <<>>
    /\ UNCHANGED <<textRegexpCallbacks, messageHandlers, lastIndex, regLog, polling, mainVars>>

SetCommands ==
    /\ event' = [type |-> "setCommands"]
    /\ invoked' = <<>>
    /\ calls' = << [op |-> "setMyCommands", commands |-> BotCommands(commands)] >>
    /\ UNCHANGED <<commands, textRegexpCallbacks, messageHandlers, lastIndex, regLog, polling, mainVars>>

\* An inbound message: the 'message' listener (handleMessage) runs first, then the
\* command matchers.  Every invoked handler runs to its reply.
OnMessage(msg) ==
    LET h  == HandleMessage(messageHandlers, lastIndex, msg)
        cs == TextCallbacks(textRegexpCallbacks, msg)
    IN  /\ polling
        /\ lastIndex' = h.lastIndex
        /\ invoked' = h.invoked \o cs
        /\ calls' = Replies(h.invoked \o cs, msg)
        /\ event' = [type |-> "message", msg |-> msg]
        /\ UNCHANGED <<commands, textRegexpCallbacks, messageHandlers, regLog, polling, mainVars>>

\* handleCallbackQuery without the guard on query.data
OnCallbackQueryNoGuard(query) ==
    /\ event' = [type |-> "callback_query", query |-> query]
    /\ invoked' = <<>>
    /\ calls' = << [op |-> "answerCallbackQuery", id |-> query.id] >>
    /\ UNCHANGED <<commands, textRegexpCallbacks, messageHandlers, lastIndex, regLog, polling, mainVars>>

\* handleCallbackQuery
OnCallbackQuery(query) ==
    /\ event' = [type |-> "callback_query", query |-> query]
    /\ invoked' = <<>>
    /\ calls' = IF ~query.hasData \/ query.data = <<>> THEN <<>>
                ELSE << [op |-> "answerCallbackQuery", id |-> query.id] >>
    /\ UNCHANGED <<commands, textRegexpCallbacks, messageHandlers, lastIndex, regLog, polling, mainVars>>

\* A 'polling_error' listener that gives up polling
OnPollingErrorStops ==
    /\ event' = [type |-> "polling_error"]
    /\ invoked' = <<>>
    /\ calls' = <<>>
    /\ polling' = FALSE
    /\ UNCHANGED <<commands, textRegexpCallbacks, messageHandlers, lastIndex, regLog, mainVars>>

\* The 'polling_error' listener only writes the error to the console; the transport
\* goes on polling.
OnPollingError ==
    /\ event' = [type |-> "polling_error"]
    /\ invoked' = <<>>
    /\ calls' = <<>>
    /\ UNCHANGED <<commands, textRegexpCallbacks, messageHandlers, lastIndex, regLog, polling, mainVars>>

Next ==
    \/ \E d \in CommandInputs : RegisterCommand(d)
    \/ \E t \in TriggerInputs : RegisterMessageHandler(t)
    \/ SetCommands
    \/ \E m \in Messages : OnMessage(m)
    \/ \E q \in Queries : OnCallbackQuery(q)
    \/ OnPollingError

Spec == Init /\ [][Next]_vars

(***************************************************************************)
(* The string trigger match on its own: one string trigger over the whole  *)
(* bounded alphabet, and every text over it.                               *)
(***************************************************************************)
MatchTriggers == { StringTrigger(s) : s \in SeqsUpTo(Alphabet, MaxTriggerLen) }

MatchMessages == { TextMessage(1, t) : t \in SeqsUpTo(Alphabet, MaxTextLen) }

InitMatch ==
    /\ commands = <<>>
    /\ textRegexpCallbacks = <<>>
    /\ \E t \in MatchTriggers :
           messageHandlers = << [trigger |-> t, handler |-> TriggerHandlerId(1)] >>
    /\ lastIndex = <<0>>
    /\ regLog = <<>>
    /\ event = [type |-> "init"]
    /\ invoked = <<>>
    /\ calls = <<>>
    /\ polling = TRUE
    /\ auth = "none"
    /\ pending = <<>>

NextMatch == \E m \in MatchMessages : OnMessage(m)

SpecMatch == InitMatch /\ [][NextMatch]_vars


(***************************************************************************)
(* Main (envConfig.ts): bootstrap() starts googleApi.initialize() without  *)
(* awaiting it and registers five commands, in this order.  The handlers   *)
(* of start, help and about reply at once; those of sheetlink and          *)
(* addenglishword await googleApi.getSheetMetadata and reply after it.     *)
(* GoogleApiService is not among the source files: initialize() and        *)
(* getSheetMetadata() are asynchronous calls that resolve or reject.       *)
(* Descriptions are written without their diacritics.                      *)
(***************************************************************************)
MaxPending == 2

\* bootstrap() calling botLearningZoneCommand before botRegisterCommonCommand
BootCommandInputsLearningFirst ==
    << [command |-> <<"s", "h", "e", "e", "t", "l", "i", "n", "k">>,
        description |-> "Lien ket Google Sheet"],
       [command |-> <<"a", "d", "d", "e", "n", "g", "l", "i", "s", "h", "w", "o", "r", "d">>,
        description |-> "Them tu moi (tieng Anh)"],
       [command |-> <<"s", "t", "a", "r", "t">>, description |-> "Bat dau bot"],
       [command |-> <<"h", "e", "l", "p">>, description |-> "Hien thi tro giup"],
       [command |-> <<"a", "b", "o", "u", "t">>, description |-> "Ve toi"] >>

BootCommandInputs ==
    << [command |-> <<"s", "t", "a", "r", "t">>, description |-> "Bat dau bot"],
       [command |-> <<"h", "e", "l", "p">>, description |-> "Hien thi tro giup"],
       [command |-> <<"a", "b", "o", "u", "t">>, description |-> "Ve toi"],
       [command |-> <<"s", "h", "e", "e", "t", "l", "i", "n", "k">>,
        description |-> "Lien ket Google Sheet"],
       [command |-> <<"a", "d", "d", "e", "n", "g", "l", "i", "s", "h", "w", "o", "r", "d">>,
        description |-> "Them tu moi (tieng Anh)"] >>

\* Every handler replies at once
BootHandlerKindAllReply(h) == "reply"

\* What the handler of a bootstrap command does: "reply" sends a text at once,
\* "fetchReply" awaits getSheetMetadata and sends a text after it.
BootHandlerKind(h) ==
    IF h.kind = "command" /\ h.n \in {4, 5} THEN "fetchReply" ELSE "reply"

IsReplyHandler(h) == BootHandlerKind(h) = "reply"

IsFetchHandler(h) == BootHandlerKind(h) = "fetchReply"

BootTexts ==
    { <<"/">> \o BootCommandInputs[i].command : i \in 1..Len(BootCommandInputs) }
    \cup { <<"/", "s", "t", "a", "r", "t", " ", "x">>,
           <<"/", "s", "h", "e", "e", "t", "l", "i", "n", "k", " ", "x">>,
           <<"h", "i">>,
           <<>> }

BootMessages == { TextMessage(c, t) : c \in Chats, t \in BootTexts }
                \cup { NoTextMessage(c) : c \in Chats }

\* The state when bootstrap() has returned: the handshake is started and not
\* awaited, the five registerCommand calls are done.
InitBoot ==
    /\ commands = [i \in 1..Len(BootCommandInputs) |->
                      [command |-> BootCommandInputs[i].command,
                       description |-> BootCommandInputs[i].description,
                       handler |-> CommandHandlerId(i)]]
    /\ textRegexpCallbacks = [i \in 1..Len(BootCommandInputs) |->
                      [regexp |-> CommandRegExp(BootCommandInputs[i].command),
                       callback |-> CommandHandlerId(i)]]
    /\ messageHandlers = <<>>
    /\ lastIndex = <<>>
    /\ regLog = BootCommandInputs
    /\ event = [type |-> "bootstrap"]
    /\ invoked = <<>>
    /\ calls = <<>>
    /\ polling = TRUE
    /\ auth = "pending"
    /\ pending = <<>>

\* googleApi.initialize() completes
AuthResolve ==
    /\ auth = "pending"
    /\ auth' = "ready"
    /\ event' = [type |-> "auth_ready"]
    /\ invoked' = <<>>
    /\ calls' = <<>>
    /\ UNCHANGED <<commands, textRegexpCallbacks, messageHandlers, lastIndex, regLog,
                   polling, pending>>

\* googleApi.initialize() fails: nothing awaits or catches it
AuthReject ==
    /\ auth = "pending"
    /\ auth' = "failed"
    /\ event' = [type |-> "auth_failed"]
    /\ invoked' = <<>>
    /\ calls' = <<>>
    /\ UNCHANGED <<commands, textRegexpCallbacks, messageHandlers, lastIndex, regLog,
                   polling, pending>>

\* The getSheetMetadata calls started by the handlers hs for msg
Fetches(hs, msg) == [k \in 1..Len(hs) |-> [handler |-> hs[k], msg |-> msg]]

\* Routing that handles one message at a time: while a handler awaits, a new
\* message is dropped
BootOnMessageSerialised(msg) ==
    LET h  == HandleMessage(messageHandlers, lastIndex, msg)
        cs == TextCallbacks(textRegexpCallbacks, msg)
        hs == IF pending = <<>> THEN h.invoked \o cs ELSE <<>>
    IN  /\ polling
        /\ Len(pending) + Len(SelectSeq(hs, IsFetchHandler)) <= MaxPending
        /\ lastIndex' = h.lastIndex
        /\ invoked' = hs
        /\ calls' = Replies(SelectSeq(hs, IsReplyHandler), msg)
        /\ pending' = pending \o Fetches(SelectSeq(hs, IsFetchHandler), msg)
        /\ event' = [type |-> "message", msg |-> msg]
        /\ UNCHANGED <<commands, textRegexpCallbacks, messageHandlers, regLog, polling, auth>>

\* An inbound message of the bootstrapped bot: routed as by OnMessage; a handler
\* that replies at once issues its sendMessage, a handler that awaits
\* getSheetMetadata starts the call and returns its promise, which nothing awaits.
BootOnMessage(msg) ==
    LET h  == HandleMessage(messageHandlers, lastIndex, msg)
        cs == TextCallbacks(textRegexpCallbacks, msg)
        hs == h.invoked \o cs
    IN  /\ polling
        /\ Len(pending) + Len(SelectSeq(hs, IsFetchHandler)) <= MaxPending
        /\ lastIndex' = h.lastIndex
        /\ invoked' = hs
        /\ calls' = Replies(SelectSeq(hs, IsReplyHandler), msg)
        /\ pending' = pending \o Fetches(SelectSeq(hs, IsFetchHandler), msg)
        /\ event' = [type |-> "message", msg |-> msg]
        /\ UNCHANGED <<commands, textRegexpCallbacks, messageHandlers, regLog, polling, auth>>

\* The sequence s without its k-th element
RemoveAt(s, k) == [i \in 1..(Len(s) - 1) |-> IF i < k THEN s[i] ELSE s[i + 1]]

\* A handler that keeps the chat to reply to in a variable shared by all
\* invocations: the reply goes to the chat of the latest call in flight
FetchResolveSharedChat(k) ==
    /\ k \in 1..Len(pending)
    /\ pending' = RemoveAt(pending, k)
    /\ calls' = << Reply(pending[k].handler, pending[Len(pending)].msg) >>
    /\ invoked' = <<>>
    /\ event' = [type |-> "fetch_resolved", call |-> pending[k]]
    /\ UNCHANGED <<commands, textRegexpCallbacks, messageHandlers, lastIndex, regLog,
                   polling, auth>>

\* The k-th call in flight resolves: the handler goes on and sends its reply.
FetchResolve(k) ==
    /\ k \in 1..Len(pending)
    /\ pending' = RemoveAt(pending, k)
    /\ calls' = << Reply(pending[k].handler, pending[k].msg) >>
    /\ invoked' = <<>>
    /\ event' = [type |-> "fetch_resolved", call |-> pending[k]]
    /\ UNCHANGED <<commands, textRegexpCallbacks, messageHandlers, lastIndex, regLog,
                   polling, auth>>

\* A rejected call that is issued again
FetchRejectRetries(k) ==
    /\ k \in 1..Len(pending)
    /\ pending' = Append(RemoveAt(pending, k), pending[k])
    /\ calls' = <<>>
    /\ invoked' = <<>>
    /\ event' = [type |-> "fetch_rejected", call |-> pending[k]]
    /\ UNCHANGED <<commands, textRegexpCallbacks, messageHandlers, lastIndex, regLog,
                   polling, auth>>

\* A rejected call that takes the command of its handler out of service
FetchRejectUnregisters(k) ==
    LET NotFailing(cb) == cb.callback # pending[k].handler
    IN  /\ k \in 1..Len(pending)
        /\ pending' = RemoveAt(pending, k)
        /\ textRegexpCallbacks' = SelectSeq(textRegexpCallbacks, NotFailing)
        /\ calls' = <<>>
        /\ invoked' = <<>>
        /\ event' = [type |-> "fetch_rejected", call |-> pending[k]]
        /\ UNCHANGED <<commands, messageHandlers, lastIndex, regLog, polling, auth>>

\* The k-th call in flight rejects: the await throws, the handler has no catch, so
\* its promise rejects and the sendMessage after the await is never reached.
FetchReject(k) ==
    /\ k \in 1..Len(pending)
    /\ pending' = RemoveAt(pending, k)
    /\ calls' = <<>>
    /\ invoked' = <<>>
    /\ event' = [type |-> "fetch_rejected", call |-> pending[k]]
    /\ UNCHANGED <<commands, textRegexpCallbacks, messageHandlers, lastIndex, regLog,
                   polling, auth>>

NextBoot ==
    \/ AuthResolve
    \/ AuthReject
    \/ \E m \in BootMessages : BootOnMessage(m)
    \/ \E k \in 1..MaxPending : FetchResolve(k)
    \/ \E k \in 1..MaxPending : FetchReject(k)
    \/ \E q \in Queries : OnCallbackQuery(q)
    \/ OnPollingError

SpecBoot == InitBoot /\ [][NextBoot]_vars

(***************************************************************************)
(* Vocabulary of the properties                                            *)
(***************************************************************************)
IsMessage == event.type = "message"

\* The last step delivered a message with a non-empty text.
IsTextMessage == IsMessage /\ event.msg.hasText /\ event.msg.text # <<>>

\* text begins with the command token /<name>
BeginsWithToken(text, name) ==
    /\ Len(text) >= 1 + Len(name)
    /\ SubSeq(text, 1, 1 + Len(name)) = <<"/">> \o name

\* The token /<name> occurs in text at some position
ContainsToken(text, name) ==
    \E p \in 1..Len(text) :
        /\ p + Len(name) <= Len(text)
        /\ SubSeq(text, p, p + Len(name)) = <<"/">> \o name

IsCommandHandler(h) == h.kind = "command"

IsTriggerHandler(h) == h.kind = "trigger"

WasInvoked(h) == \E k \in 1..Len(invoked) : invoked[k] = h

CaseFold(c) == CASE c = "A" -> "a" [] c = "B" -> "b" [] OTHER -> c

Folded(s) == [i \in 1..Len(s) |-> CaseFold(s[i])]

\* s occurs in t as a contiguous substring
OccursIn(s, t) ==
    \E p \in 1..(Len(t) + 1) :
        /\ p + Len(s) - 1 <= Len(t)
        /\ SubSeq(t, p, p + Len(s) - 1) = s

\* The outcome of the match test of trigger i against text, were it run with the
\* trigger's pattern object as it is in the current state.
TriggerMatchesNow(i, text) ==
    IF messageHandlers[i].trigger.kind = "string"
    THEN OccursIn(Folded(messageHandlers[i].trigger.pat), Folded(text))
    ELSE RegExpTest(messageHandlers[i].trigger, lastIndex[i], text).ok

NamesPairwiseDistinct ==
    \A i, j \in 1..Len(commands) : i # j => commands[i].command # commands[j].command

(***************************************************************************)
(* C1..C10                                                                 *)
(***************************************************************************)

\* C1: at most one handler is invoked per inbound message, and a message whose
\* text matches a registered command invokes no trigger handler.
C1_AtMostOneHandler ==
    IsMessage =>
        /\ Len(invoked) <= 1
        /\ (event.msg.hasText /\
            \E i \in 1..Len(commands) : BeginsWithToken(event.msg.text, commands[i].command))
           => \A k \in 1..Len(invoked) : ~IsTriggerHandler(invoked[k])

\* C2: with pairwise distinct command names, a message whose text is exactly
\* /<name> invokes the handler of the command named <name> and no other handler.
C2_ExactNameInvokesOnlyThat ==
    (IsTextMessage /\ NamesPairwiseDistinct) =>
        \A i \in 1..Len(commands) :
            event.msg.text = <<"/">> \o commands[i].command
            => invoked = << commands[i].handler >>

\* C3: triggers are tested in registration order; the first one whose test
\* succeeds has its handler invoked exactly once, no other trigger handler is
\* invoked, and no trigger registered after it is tested (its pattern object
\* is left as it was).
C3_FirstTriggerWins ==
    [][ (event'.type = "message" /\ event'.msg.hasText /\ event'.msg.text # <<>>) =>
          \A i \in 1..Len(messageHandlers) :
              ( /\ TriggerMatchesNow(i, event'.msg.text)
                /\ \A j \in 1..(i - 1) : ~TriggerMatchesNow(j, event'.msg.text) )
              => /\ SelectSeq(invoked', IsTriggerHandler) = << TriggerHandlerId(i) >>
                 /\ \A j \in (i + 1)..Len(messageHandlers) : lastIndex'[j] = lastIndex[j]
      ]_vars

\* C3 witness: two triggers that both match the delivered text; only the first ran.
C3_Witness ==
    /\ IsTextMessage
    /\ event.msg.text = <<"a", " ", "a">>
    /\ Len(messageHandlers) >= 2
    /\ messageHandlers[1].trigger = StringTrigger(<<"A">>)
    /\ messageHandlers[2].trigger = RegExpTrigger(<<"a">>, "g")
    /\ lastIndex[2] = 0
    /\ invoked = << TriggerHandlerId(1) >>

\* C4: when several registered commands match the text of a message, only the
\* handler of the earliest-registered matching command is invoked.
C4_FirstRegisteredCommandWins ==
    IsTextMessage =>
        \A i \in 1..Len(commands) :
            ( /\ BeginsWithToken(event.msg.text, commands[i].command)
              /\ \A j \in 1..(i - 1) : ~BeginsWithToken(event.msg.text, commands[j].command) )
            => SelectSeq(invoked, IsCommandHandler) = << commands[i].handler >>

\* C5: a message whose text begins with no registered command token and matches
\* no registered trigger invokes no handler, issues no transport call and leaves
\* the registry unchanged.
C5_NoMatchNoEffect ==
    [][ ( /\ event'.type = "message" /\ event'.msg.hasText /\ event'.msg.text # <<>>
          /\ \A i \in 1..Len(commands) : ~BeginsWithToken(event'.msg.text, commands[i].command)
          /\ \A i \in 1..Len(messageHandlers) : ~TriggerMatchesNow(i, event'.msg.text) )
        => /\ invoked' = <<>>
           /\ calls' = <<>>
           /\ commands' = commands
           /\ messageHandlers' = messageHandlers
           /\ textRegexpCallbacks' = textRegexpCallbacks
      ]_vars

\* C5 witness: a text that names a command only after its first character, with a
\* command and a trigger registered, was delivered and nothing ran.
C5_Witness ==
    /\ IsTextMessage
    /\ event.msg.text = <<"x", " ", "/", "a">>
    /\ Len(commands) >= 1
    /\ Len(messageHandlers) >= 1
    /\ messageHandlers[1].trigger = RegExpTrigger(<<"a">>, "y")
    /\ invoked = <<>>
    /\ calls = <<>>

\* C6: a message with no text body or with an empty text invokes no handler and
\* issues no transport call, whatever is registered.
C6_NoTextNoHandler ==
    (IsMessage /\ (~event.msg.hasText \/ event.msg.text = <<>>)) =>
        /\ invoked = <<>>
        /\ calls = <<>>

\* C6 witness: the empty text was delivered with the empty string trigger registered.
C6_Witness ==
    /\ IsMessage
    /\ event.msg.hasText
    /\ event.msg.text = <<>>
    /\ Len(messageHandlers) >= 1
    /\ messageHandlers[1].trigger = StringTrigger(<<>>)
    /\ invoked = <<>>

\* C7: after registerCommand(d) has returned, a message whose text begins with
\* /<d.name> invokes d's handler unless an earlier-registered command also
\* matches the text; no setCommands call is needed.
C7_RegisteredCommandEligible ==
    IsTextMessage =>
        \A i \in 1..Len(regLog) :
            BeginsWithToken(event.msg.text, regLog[i].command)
            => \/ WasInvoked(CommandHandlerId(i))
               \/ \E j \in 1..(i - 1) : BeginsWithToken(event.msg.text, regLog[j].command)

\* C7 witness: the second registered command was invoked for its own token.
C7_Witness ==
    /\ IsTextMessage
    /\ Len(regLog) = 2
    /\ regLog[2].command = <<"a", "b">>
    /\ regLog[1].command = <<"a">>
    /\ event.msg.text = <<"/", "a", "b">>
    /\ WasInvoked(CommandHandlerId(2))

\* C8: a string trigger s matches a text t exactly when lower-cased s occurs as a
\* contiguous substring of lower-cased t; for a non-empty t this is exactly when
\* the trigger's handler is invoked.
C8_StringTriggerIsCaseInsensitiveSubstring ==
    IsMessage =>
        LET s == messageHandlers[1].trigger.pat
            t == event.msg.text
        IN  /\ StringTriggerMatches(messageHandlers[1].trigger, t)
                <=> OccursIn(Folded(s), Folded(t))
            /\ t # <<>> =>
                (invoked = << TriggerHandlerId(1) >> <=> OccursIn(Folded(s), Folded(t)))
            /\ t # <<>> =>
                (invoked = <<>> <=> ~OccursIn(Folded(s), Folded(t)))

\* C8 witness: the trigger occurs in upper case, after the first character of the text.
C8_Witness ==
    /\ IsMessage
    /\ messageHandlers[1].trigger.pat = <<"a", "b">>
    /\ event.msg.text = <<"b", "A", "B">>
    /\ invoked = << TriggerHandlerId(1) >>

\* C9: a message invokes the handler of command <name> exactly when its text
\* begins with /<name>; an occurrence of /<name> after the first character does
\* not invoke it.
C9_CommandMatchAnchored ==
    IsTextMessage =>
        \A i \in 1..Len(regLog) :
            WasInvoked(CommandHandlerId(i)) <=> BeginsWithToken(event.msg.text, regLog[i].command)

\* C9 witness: the token occurs in the text, but not at its start, and the
\* command was not invoked.
C9_Witness ==
    /\ IsTextMessage
    /\ Len(regLog) >= 1
    /\ ContainsToken(event.msg.text, regLog[1].command)
    /\ ~BeginsWithToken(event.msg.text, regLog[1].command)
    /\ ~WasInvoked(CommandHandlerId(1))

\* C10: setCommands publishes one {command, description} entry per registerCommand
\* call, in call order, each description with the name it was registered with.
C10_MenuInRegistrationOrder ==
    event.type = "setCommands" =>
        calls = << [op |-> "setMyCommands", commands |-> regLog] >>

\* C10 witness: a menu of two commands registered with different descriptions.
C10_Witness ==
    /\ event.type = "setCommands"
    /\ regLog = << [command |-> <<"a", "b">>, description |-> "d2"],
                   [command |-> <<"a">>, description |-> "d1"] >>
    /\ Len(calls) = 1

(***************************************************************************)
(* C11..C20                                                                *)
(***************************************************************************)
IsPrefix(s, t) == Len(s) <= Len(t) /\ SubSeq(t, 1, Len(s)) = s

\* C11: in every reachable state no two entries of the command sequence have the
\* same name.
C11_CommandNamesUnique ==
    \A i, j \in 1..Len(commands) :
        i # j => commands[i].command # commands[j].command

\* C12: registration is append-only: across every step the command sequence and
\* the trigger sequence of the earlier state are prefixes of those of the later
\* state, so no entry is removed, reordered or changed in place.
C12_AppendOnly ==
    [][ /\ IsPrefix(commands, commands')
        /\ IsPrefix(messageHandlers, messageHandlers')
        /\ IsPrefix(textRegexpCallbacks, textRegexpCallbacks')
      ]_vars

\* C12 witness: a name was registered a second time, with another description, and
\* the first entry is still there.
C12_Witness ==
    /\ event.type = "registerCommand"
    /\ Len(commands) = 2
    /\ commands[1].command = commands[2].command
    /\ commands[1].description = "d1"
    /\ commands[2].description = "d2"
    /\ Len(messageHandlers) = 1

\* C16: a polling error invokes no handler, issues no transport call, does not
\* stop the polling, and leaves unchanged everything the routing of a later
\* message reads: the registry, the command matchers and the pattern objects.
C16_PollingErrorOnlyLogged ==
    [][ event'.type = "polling_error" =>
          /\ invoked' = <<>>
          /\ calls' = <<>>
          /\ commands' = commands
          /\ messageHandlers' = messageHandlers
          /\ textRegexpCallbacks' = textRegexpCallbacks
          /\ polling'
          /\ lastIndex' = lastIndex
      ]_vars

\* C16 witness: a polling error occurred with a command and a trigger registered.
C16_Witness ==
    /\ event.type = "polling_error"
    /\ Len(commands) >= 1
    /\ Len(messageHandlers) >= 1
    /\ polling

\* C18: setCommands changes neither the command sequence, nor the trigger
\* sequence, nor the command matchers, and a setCommands that follows a
\* setCommands publishes the identical list.
C18_SetCommandsIdempotent ==
    [][ event'.type = "setCommands" =>
          /\ commands' = commands
          /\ messageHandlers' = messageHandlers
          /\ textRegexpCallbacks' = textRegexpCallbacks
          /\ event.type = "setCommands" => calls' = calls
      ]_vars

\* C18 witness: a non-empty menu was published.
C18_Witness ==
    /\ event.type = "setCommands"
    /\ Len(commands) >= 2
    /\ Len(calls) = 1
    /\ Len(calls[1].commands) = Len(commands)

\* C20: two consecutive deliveries of the same text, with no registration in
\* between, invoke the same handlers.
C20_RoutingDeterministic ==
    [][ ( /\ event.type = "message"
          /\ event'.type = "message"
          /\ event'.msg.hasText = event.msg.hasText
          /\ event'.msg.text = event.msg.text )
        => invoked' = invoked
      ]_vars

\* The handlers the registry built by bootstrap() gives a message, computed from
\* the five registered names alone.
BootExpected(msg) ==
    LET Named(h) == BeginsWithToken(msg.text, BootCommandInputs[h.n].command)
    IN  IF ~msg.hasText \/ msg.text = <<>> THEN <<>>
        ELSE SelectSeq([i \in 1..Len(BootCommandInputs) |-> CommandHandlerId(i)], Named)

RegistryUnchanged ==
    /\ commands' = commands
    /\ messageHandlers' = messageHandlers
    /\ textRegexpCallbacks' = textRegexpCallbacks
    /\ lastIndex' = lastIndex

FetchNames ==
    { <<"s", "h", "e", "e", "t", "l", "i", "n", "k">>,
      <<"a", "d", "d", "e", "n", "g", "l", "i", "s", "h", "w", "o", "r", "d">> }

ReplyNames ==
    { <<"s", "t", "a", "r", "t">>, <<"h", "e", "l", "p">>, <<"a", "b", "o", "u", "t">> }

\* C13: after bootstrap() no step writes the registry, and the handlers invoked
\* for a message are those the bootstrap registry gives its text, whatever calls
\* of other messages are in flight.
C13_DispatchIndependentOfInFlight ==
    [][ /\ RegistryUnchanged
        /\ event'.type = "message" => invoked' = BootExpected(event'.msg)
      ]_vars

\* C13 witness: a message was dispatched to its handler while the call of a
\* message of another chat was in flight.
C13_Witness ==
    /\ IsTextMessage
    /\ invoked = << CommandHandlerId(1) >>
    /\ Len(pending) >= 1
    /\ pending[1].msg.chat # event.msg.chat

C19_RepliesAndFetches ==
    [][ /\ (event'.type = "message" /\ event'.msg.hasText) =>
              \A i \in 1..Len(regLog) :
                  BeginsWithToken(event'.msg.text, regLog[i].command) =>
                      /\ regLog[i].command \in ReplyNames =>
                            /\ calls' = << Reply(CommandHandlerId(i), event'.msg) >>
                            /\ pending' = pending
                      /\ regLog[i].command \in FetchNames =>
                            /\ calls' = <<>>
                            /\ pending' = Append(pending,
                                   [handler |-> CommandHandlerId(i), msg |-> event'.msg])
        /\ event'.type = "fetch_resolved" =>
              /\ calls' = << Reply(event'.call.handler, event'.call.msg) >>
              /\ Len(pending') = Len(pending) - 1
        /\ event'.type = "fetch_rejected" =>
              /\ calls' = <<>>
              /\ Len(pending') = Len(pending) - 1
      ]_vars

\* C19 witness: the fetch of a /sheetlink message succeeded and its reply was sent.
C19_Witness ==
    /\ event.type = "fetch_resolved"
    /\ event.call.handler = CommandHandlerId(4)
    /\ calls = << [op |-> "sendMessage", chatId |-> event.call.msg.chat,
                   by |-> CommandHandlerId(4)] >>

(***************************************************************************)
(* C21..C25                                                                *)
(***************************************************************************)

\* C21: every sendMessage of a bootstrap handler carries the chat of the message
\* that invoked the handler: a reply sent at once carries the chat of the message
\* being routed, a call in flight keeps the message that started it, and the reply
\* sent when it resolves carries that message's chat, in whatever order the
\* calls in flight resolve.
C21_ReplyToOwnChat ==
    [][ /\ event'.type = "message" =>
              /\ \A k \in 1..Len(calls') : calls'[k].chatId = event'.msg.chat
              /\ IsPrefix(pending, pending')
              /\ \A k \in (Len(pending) + 1)..Len(pending') : pending'[k].msg = event'.msg
        /\ event'.type = "fetch_resolved" =>
              /\ \E k \in 1..Len(pending) :
                     pending[k] = event'.call /\ pending' = RemoveAt(pending, k)
              /\ Len(calls') = 1
              /\ calls'[1].op = "sendMessage"
              /\ calls'[1].chatId = event'.call.msg.chat
      ]_vars

\* C21 witness: a call resolved and its reply went to its own chat while the call
\* of a message of the other chat was still in flight.
C21_Witness ==
    /\ event.type = "fetch_resolved"
    /\ Len(calls) = 1
    /\ calls[1].chatId = event.call.msg.chat
    /\ Len(pending) >= 1
    /\ \A k \in 1..Len(pending) : pending[k].msg.chat # event.call.msg.chat

\* C22: the i-th command matcher is the start-anchored pattern of the i-th
\* command's name and calls the i-th command's handler; registerCommand appends
\* one command and one matcher and leaves the triggers unchanged;
\* registerMessageHandler appends one trigger and leaves the commands and the
\* matchers unchanged.
C22_CommandsAndMatchersCorrespond ==
    [][ /\ Len(textRegexpCallbacks') = Len(commands')
        /\ \A i \in 1..Len(commands') :
              /\ textRegexpCallbacks'[i].regexp =
                     [source |-> <<"/">> \o commands'[i].command, anchored |-> TRUE]
              /\ textRegexpCallbacks'[i].callback = commands'[i].handler
        /\ event'.type = "registerCommand" =>
              /\ Len(commands') = Len(commands) + 1
              /\ IsPrefix(commands, commands')
              /\ IsPrefix(textRegexpCallbacks, textRegexpCallbacks')
              /\ messageHandlers' = messageHandlers
        /\ event'.type = "registerMessageHandler" =>
              /\ Len(messageHandlers') = Len(messageHandlers) + 1
              /\ IsPrefix(messageHandlers, messageHandlers')
              /\ commands' = commands
              /\ textRegexpCallbacks' = textRegexpCallbacks
      ]_vars

\* C22 witness: a trigger was registered after two commands.
C22_Witness ==
    /\ event.type = "registerMessageHandler"
    /\ Len(commands) = 2
    /\ Len(textRegexpCallbacks) = 2
    /\ Len(messageHandlers) = 1

BootNames ==
    << <<"s", "t", "a", "r", "t">>,
       <<"h", "e", "l", "p">>,
       <<"a", "b", "o", "u", "t">>,
       <<"s", "h", "e", "e", "t", "l", "i", "n", "k">>,
       <<"a", "d", "d", "e", "n", "g", "l", "i", "s", "h", "w", "o", "r", "d">> >>

\* C23: after bootstrap() the command sequence is start, help, about, sheetlink,
\* addenglishword in this order and there is no trigger; no name is a textual
\* prefix of another; so a message /<name> or /<name> <args> invokes the handler
\* of that command and no other handler.
C23_BootstrapRegistry ==
    /\ Len(commands) = 5
    /\ \A i \in 1..5 : commands[i].command = BootNames[i]
    /\ messageHandlers = <<>>
    /\ \A i, j \in 1..5 : i # j => ~IsPrefix(commands[i].command, commands[j].command)
    /\ IsTextMessage =>
          \A i \in 1..5 :
              ( \/ event.msg.text = <<"/">> \o BootNames[i]
                \/ IsPrefix(<<"/">> \o BootNames[i] \o <<" ">>, event.msg.text) )
              => invoked = << commands[i].handler >>

\* C23 witness: /sheetlink with an argument invoked the fourth command's handler.
C23_Witness ==
    /\ IsTextMessage
    /\ event.msg.text = <<"/", "s", "h", "e", "e", "t", "l", "i", "n", "k", " ", "x">>
    /\ invoked = << CommandHandlerId(4) >>

\* C24: when the empty string is registered as a trigger, every message with a
\* non-empty text invokes the handler of that trigger or of a trigger registered
\* before it whose test succeeds (the first such), and never the handler of a
\* trigger registered after it.
C24_EmptyTriggerShadowsLater ==
    [][ (event'.type = "message" /\ event'.msg.hasText /\ event'.msg.text # <<>>) =>
          \A i \in 1..Len(messageHandlers) :
              messageHandlers[i].trigger = StringTrigger(<<>>) =>
                  /\ \A k \in 1..Len(invoked') :
                        invoked'[k].kind = "trigger" => invoked'[k].n <= i
                  /\ (\A j \in 1..(i - 1) : ~TriggerMatchesNow(j, event'.msg.text))
                        => SelectSeq(invoked', IsTriggerHandler) = << TriggerHandlerId(i) >>
                  /\ \A j \in 1..(i - 1) :
                        ( /\ TriggerMatchesNow(j, event'.msg.text)
                          /\ \A l \in 1..(j - 1) : ~TriggerMatchesNow(l, event'.msg.text) )
                        => SelectSeq(invoked', IsTriggerHandler) = << TriggerHandlerId(j) >>
      ]_vars

\* C24 witness: the empty trigger, registered between two triggers that both match
\* the text, did not run (the earlier trigger did) and the later one did not either.
C24_Witness ==
    /\ IsTextMessage
    /\ Len(messageHandlers) = 3
    /\ messageHandlers[1].trigger = StringTrigger(<<"A">>)
    /\ messageHandlers[2].trigger = StringTrigger(<<>>)
    /\ messageHandlers[3].trigger = RegExpTrigger(<<"a">>, "")
    /\ event.msg.text = <<"a", " ", "a">>
    /\ invoked = << TriggerHandlerId(1) >>

\* C25: a callback query with non-empty data is acknowledged exactly once, with
\* its own id; one without data or with empty data is not acknowledged; in both
\* cases no handler is invoked and the registry is unchanged.
C25_CallbackQueryAcknowledged ==
    [][ event'.type = "callback_query" =>
          /\ (event'.query.hasData /\ event'.query.data # <<>>)
                => calls' = << [op |-> "answerCallbackQuery", id |-> event'.query.id] >>
          /\ (~event'.query.hasData \/ event'.query.data = <<>>) => calls' = <<>>
          /\ invoked' = <<>>
          /\ commands' = commands
          /\ messageHandlers' = messageHandlers
          /\ textRegexpCallbacks' = textRegexpCallbacks
      ]_vars

\* C25 witness: a query with data was acknowledged with a command and a trigger
\* registered.
C25_Witness ==
    /\ event.type = "callback_query"
    /\ event.query.hasData
    /\ event.query.data = <<"x">>
    /\ calls = << [op |-> "answerCallbackQuery", id |-> 8] >>
    /\ Len(commands) >= 1
    /\ Len(messageHandlers) >= 1

=============================================================================
